---- MODULE Spec2Model ----
(***************************************************************************)
(* EchoChamber: the App component (src/App.tsx) as a state machine.        *)
(*                                                                         *)
(* React state lives in the variables state, username, graphData, posts,   *)
(* isLoadingPost and activePost.  The handlers of a render read the values *)
(* that render captured (its closures): these are kept in view.  Updates   *)
(* made by a click handler are committed before the next event (React     *)
(* flushes discrete events synchronously); updates made by a promise       *)
(* continuation or by the IntersectionObserver callback are committed by a *)
(* later Render step.                                                      *)
(***************************************************************************)
EXTENDS Integers, Sequences, FiniteSets, TLC

VARIABLES
    state,          \* AppState                          App.tsx:11
    username,       \* login form field                  App.tsx:12
    graphData,      \* [nodes, links]                    App.tsx:13
    posts,          \* the feed sequence                 App.tsx:14
    isLoadingPost,  \* the in-flight flag                App.tsx:16
    activePost,     \* the open detail item or NoPost    App.tsx:17
    view,           \* values captured by the committed render's closures
    obs,            \* the IntersectionObserver of the infinite-scroll effect
    visible,        \* whether the load-more region is at least half in view
    sim,            \* the InterestGraph component: its d3 simulation and drawing
    genInFlight,    \* a generateUserGraph request is outstanding
    acquisition,    \* how far that request is, and what the proxies answered
    inflight,       \* number of outstanding generateNextPost requests
    analysis,       \* ids of posts with an outstanding analyzePostRisk request
    issued,         \* history: ids analyzePostRisk was called for, in order
    unhandled,      \* history: a promise rejected with no handler attached
    now,            \* Date.now()
    trace,          \* history: the interactions handled so far
    sinceFail       \* history: what happened since the last pagination failure

vars == <<state, username, graphData, posts, isLoadingPost, activePost, view,
          obs, visible, sim, genInFlight, acquisition, inflight, analysis, issued,
          unhandled, now, trace, sinceFail>>

----------------------------------------------------------------------------
(* Bounds of the model *)

MaxInFlight == 2        \* generateNextPost requests outstanding at a time
MaxPosts == 1           \* length of the feed in a run of Spec
MaxInteractions == 2    \* interactions handled in a run of Spec
MaxTrace == 3           \* interactions handled in a run of SpecVote
MaxFeed == 2            \* length of the feed in a run of SpecFeed

(* Program constants *)

MinWeight == 10
MaxWeight == 180
RecencyWindow == 1000   \* ms within which a stamped node is pulsed
CollidePadding == 8     \* the collision radius of a node is val + 8

NodeIds == {"n1", "n2"}
TopicIds == {"n1", "ghost"}             \* topicId is whatever the service returns
GenWeights == {175}                     \* val the service gives node n1
Links == {[source |-> "n1", target |-> "n2", value |-> 1]}
Votes == {"none", "up", "down"}
Results == {"flagged"}                  \* GuardAnalysis of a resolved analysis
NoTime == 0

NoPost ==
    [id |-> 0, topicId |-> "none", userVote |-> "none", guardResult |-> "absent",
     content |-> "none", upvotes |-> 0, comments |-> 0]

EmptyGraph == [nodes |-> {}, links |-> {}]

\* a GraphData as generateUserGraph returns it: node n1 of weight w, node n2
Graph(w) ==
    [nodes |-> {[id |-> "n1", val |-> w, lastUpdated |-> NoTime],
                [id |-> "n2", val |-> 50, lastUpdated |-> NoTime]},
     links |-> Links]

\* the InterestGraph component before its effects have run: no simulation
NoSim ==
    [on |-> FALSE, interactive |-> TRUE, handlers |-> FALSE, topo |-> <<0, 0>>,
     seed |-> 0, val |-> [id \in {} |-> 0], collide |-> [id \in {} |-> 0],
     pos |-> [id \in {} |-> "seeded"], pinned |-> {}, running |-> FALSE,
     pulsed |-> {}, resized |-> {}, seen |-> EmptyGraph]

Max2(a, b) == IF a >= b THEN a ELSE b
Min2(a, b) == IF a <= b THEN a ELSE b

----------------------------------------------------------------------------
(* handleInteraction: the pure parts *)

\* posts.find(p => p.id === postId)
FindPost(ps, postId) ==
    IF \E i \in 1..Len(ps) : ps[i].id = postId
    THEN ps[CHOOSE i \in 1..Len(ps) :
                /\ ps[i].id = postId
                /\ \A j \in 1..(i-1) : ps[j].id # postId]
    ELSE NoPost

\* faulty variant: a vote never toggles off
newVote_noToggle(type, userVote) ==
    CASE type = "click" -> userVote
      [] type = "upvote" -> "up"
      [] type = "downvote" -> "down"

\* newVote, App.tsx:118-140
newVote(type, userVote) ==
    CASE type = "click" -> userVote
      [] type = "upvote" -> IF userVote = "up" THEN "none" ELSE "up"
      [] type = "downvote" -> IF userVote = "down" THEN "none" ELSE "down"

\* faulty variant: a flip applies the new vote without undoing the old one
weightChange_flipPlain(type, userVote) ==
    CASE type = "click" -> 5
      [] type = "upvote" -> IF userVote = "up" THEN -25 ELSE 25
      [] type = "downvote" -> IF userVote = "down" THEN 20 ELSE -20

\* faulty variant: a flip counts the new vote twice instead of undoing the old one
weightChange_flipDouble(type, userVote) ==
    CASE type = "click" -> 5
      [] type = "upvote" ->
            IF userVote = "up" THEN -25
            ELSE IF userVote = "down" THEN 50 ELSE 25
      [] type = "downvote" ->
            IF userVote = "down" THEN 20
            ELSE IF userVote = "up" THEN -40 ELSE -20

\* faulty variant: clearing an upvote takes back the downvote amount
weightChange_undo20(type, userVote) ==
    CASE type = "click" -> 5
      [] type = "upvote" ->
            IF userVote = "up" THEN -20
            ELSE IF userVote = "down" THEN 45 ELSE 25
      [] type = "downvote" ->
            IF userVote = "down" THEN 20
            ELSE IF userVote = "up" THEN -45 ELSE -20

\* faulty variant: a click carries no weight
weightChange_clickZero(type, userVote) ==
    CASE type = "click" -> 0
      [] type = "upvote" ->
            IF userVote = "up" THEN -25
            ELSE IF userVote = "down" THEN 45 ELSE 25
      [] type = "downvote" ->
            IF userVote = "down" THEN 20
            ELSE IF userVote = "up" THEN -45 ELSE -20

\* weightChange, App.tsx:117-140
weightChange(type, userVote) ==
    CASE type = "click" -> 5
      [] type = "upvote" ->
            IF userVote = "up" THEN -25
            ELSE IF userVote = "down" THEN 45 ELSE 25
      [] type = "downvote" ->
            IF userVote = "down" THEN 20
            ELSE IF userVote = "up" THEN -45 ELSE -20

\* faulty variant: the lower clamp is missing
newVal_noFloor(val, delta) == Min2(MaxWeight, val + delta)

\* faulty variant: no clamping
newVal_unclamped(val, delta) == val + delta

\* Math.max(10, Math.min(180, node.val + weightChange))
newVal(val, delta) == Max2(MinWeight, Min2(MaxWeight, val + delta))

\* faulty variant: the time is written to the nodes that do not match
updateGraph_stampOthers(prevData, topicId, delta, t) ==
    [prevData EXCEPT !.nodes =
        { IF node.id = topicId
          THEN [node EXCEPT !.val = newVal(node.val, delta)]
          ELSE [node EXCEPT !.lastUpdated = t] : node \in prevData.nodes }]

\* faulty variant: the change spreads to the other nodes, a point each
updateGraph_spreads(prevData, topicId, delta, t) ==
    [prevData EXCEPT !.nodes =
        { IF node.id = topicId
          THEN [node EXCEPT !.val = newVal(node.val, delta), !.lastUpdated = t]
          ELSE [node EXCEPT !.val = newVal(node.val, 1)] : node \in prevData.nodes }]

\* the updater given to setGraphData, App.tsx:160-176
updateGraph(prevData, topicId, delta, t) ==
    [prevData EXCEPT !.nodes =
        { IF node.id = topicId
          THEN [node EXCEPT !.val = newVal(node.val, delta), !.lastUpdated = t]
          ELSE node : node \in prevData.nodes }]

\* faulty variant: the item voted on moves to the head of the feed
updatePosts_voteFirst(prevPosts, postId, type, vote) ==
    LET voted == [i \in 1..Len(prevPosts) |->
                    IF prevPosts[i].id # postId THEN prevPosts[i]
                    ELSE IF type = "click" THEN prevPosts[i]
                    ELSE [prevPosts[i] EXCEPT !.userVote = vote]]
    IN  SelectSeq(voted, LAMBDA p : p.id = postId /\ type # "click")
            \o SelectSeq(voted, LAMBDA p : ~(p.id = postId /\ type # "click"))

\* faulty variant: a vote is also counted in the item's score
updatePosts_countsVote(prevPosts, postId, type, vote) ==
    [i \in 1..Len(prevPosts) |->
        IF prevPosts[i].id # postId THEN prevPosts[i]
        ELSE IF type = "click" THEN prevPosts[i]
        ELSE [prevPosts[i] EXCEPT !.userVote = vote,
                                  !.upvotes = IF vote = "up" THEN @ + 1 ELSE @]]

\* the updater given to setPosts, App.tsx:143-147
updatePosts(prevPosts, postId, type, vote) ==
    [i \in 1..Len(prevPosts) |->
        IF prevPosts[i].id # postId THEN prevPosts[i]
        ELSE IF type = "click" THEN prevPosts[i]
        ELSE [prevPosts[i] EXCEPT !.userVote = vote]]

\* the updater given to setActivePost, App.tsx:151-155
updateActive(prev, type, vote) ==
    IF prev = NoPost THEN NoPost
    ELSE IF type = "click" THEN prev
    ELSE [prev EXCEPT !.userVote = vote]

WeightOf(gd, id) ==
    IF \E n \in gd.nodes : n.id = id
    THEN (CHOOSE n \in gd.nodes : n.id = id).val
    ELSE 0

----------------------------------------------------------------------------
(* Rendering *)

Snapshot ==
    [state |-> state, isLoadingPost |-> isLoadingPost, posts |-> posts,
     activePost |-> activePost, nodes |-> graphData.nodes]

\* faulty variant: the effect does not look at the open detail view
observerFor_ignoreActive(st, active) ==
    IF st # "SIMULATOR" THEN [on |-> FALSE, last |-> "none"]
    ELSE [on |-> TRUE, last |-> "none"]

\* the effect of App.tsx:93-109 for a committed render
observerFor(st, active) ==
    IF st # "SIMULATOR" THEN [on |-> FALSE, last |-> "none"]
    ELSE IF active # NoPost THEN [on |-> FALSE, last |-> "none"]
    ELSE [on |-> TRUE, last |-> "none"]

\* the dependencies [state, isLoadingPost, fetchNewPost, activePost]
depsChanged(old, new) ==
    \/ old.state # new.state
    \/ old.isLoadingPost # new.isLoadingPost
    \/ old.nodes # new.nodes
    \/ old.activePost # new.activePost

\* commit the pending updates: new closures, effects re-run when their deps changed
Commit(force) ==
    /\ view' = Snapshot'
    /\ obs' = IF force \/ depsChanged(view, Snapshot')
              THEN observerFor(state', activePost')
              ELSE obs

----------------------------------------------------------------------------
(* Initial state: the App component as constructed, App.tsx:11-26 *)

\* generateUserGraph between calls: nothing acquired, nothing thrown
Idle == [phase |-> "idle", activity |-> "none", errors |-> {}, context |-> "none"]

\* what a proxy request can come to, part_000:28-36 and 46-51: the fetch rejects,
\* the status is not ok, the AllOrigins wrapper has no contents, the body is
\* not JSON, or the body is parsed and handed to parseRedditResponse
ProxyOutcomes ==
    {"networkError", "httpStatus", "emptyContents", "malformedJson",
     "redditError", "invalidStructure", "empty", "records"}

\* parseRedditResponse, part_000:58-72, and the throws before it: the value a
\* strategy returns, or "throw"
parseRedditResponse(outcome) ==
    IF outcome \in {"empty", "records"} THEN outcome ELSE "throw"

\* the choice of the prompt, part_000:83 and 105: `activity && activity.length > 0`
systemContext(activity) ==
    IF activity = "records" THEN "real" ELSE "archetype"

Usernames == {"", " ", "u1"}

\* username.trim()
trim(u) == IF u = " " THEN "" ELSE u

Init ==
    /\ state = "LOGIN"
    /\ username = ""
    /\ graphData = EmptyGraph
    /\ posts = <<>>
    /\ isLoadingPost = FALSE
    /\ activePost = NoPost
    /\ view = [state |-> "LOGIN", isLoadingPost |-> FALSE, posts |-> <<>>,
               activePost |-> NoPost, nodes |-> {}]
    /\ obs = [on |-> FALSE, last |-> "none"]
    /\ visible = TRUE
    /\ sim = NoSim
    /\ acquisition = Idle
    /\ genInFlight = FALSE
    /\ inflight = 0
    /\ analysis = {}
    /\ issued = <<>>
    /\ unhandled = FALSE
    /\ now = 1
    /\ trace = <<>>
    /\ sinceFail = "none"

----------------------------------------------------------------------------
(* Login and analysis *)

\* onChange of the username input, App.tsx:218
SetUsername(u) ==
    /\ view.state = "LOGIN"
    /\ state = "LOGIN"
    /\ username # u
    /\ username' = u
    /\ UNCHANGED <<state, graphData, posts, isLoadingPost, activePost, view, obs,
                   visible, sim, genInFlight, inflight, analysis, issued, unhandled, now, trace, sinceFail, acquisition>>

\* handleLogin, App.tsx:29-34
handleLogin ==
    /\ view.state = "LOGIN"
    /\ state = "LOGIN"
    /\ state' = IF trim(username) # "" THEN "ANALYZING" ELSE state
    /\ UNCHANGED <<username, graphData, posts, isLoadingPost, activePost>>
    /\ Commit(FALSE)
    /\ UNCHANGED <<visible, sim, genInFlight, inflight, analysis, issued, unhandled, now, trace, sinceFail, acquisition>>

\* handleAnalysisComplete up to its await, App.tsx:37-39 (called by LoadingScreen)
handleAnalysisComplete ==
    /\ view.state = "ANALYZING"
    /\ state = "ANALYZING"
    /\ ~genInFlight
    /\ genInFlight' = TRUE
    /\ acquisition' = [Idle EXCEPT !.phase = "allOrigins"]
    /\ UNCHANGED <<state, username, graphData, posts, isLoadingPost, activePost,
                   view, obs, visible, sim, inflight, analysis, issued, unhandled,
                   now, trace, sinceFail>>

\* faulty variant: an error of the second proxy rejects generateUserGraph
CorsProxy_rethrow(outcome) ==
    /\ genInFlight
    /\ acquisition.phase = "corsProxy"
    /\ outcome # "emptyContents"
    /\ IF parseRedditResponse(outcome) = "throw"
       THEN /\ genInFlight' = FALSE
            /\ state' = "LOGIN"
            /\ acquisition' = Idle
       ELSE /\ acquisition' = [acquisition EXCEPT !.phase = "ai",
                                                  !.activity = outcome,
                                                  !.context = systemContext(outcome)]
            /\ UNCHANGED <<state, genInFlight>>
    /\ UNCHANGED <<username, graphData, posts, isLoadingPost, activePost,
                   view, obs, visible, sim, inflight, analysis, issued, unhandled,
                   now, trace, sinceFail>>

\* strategy 1 of fetchRedditUserActivity, part_000:25-38: a return ends the
\* acquisition, any throw is caught and strategy 2 follows
AllOrigins(outcome) ==
    /\ genInFlight
    /\ acquisition.phase = "allOrigins"
    /\ acquisition' =
          IF parseRedditResponse(outcome) = "throw"
          THEN [acquisition EXCEPT !.phase = "corsProxy", !.errors = @ \cup {outcome}]
          ELSE [acquisition EXCEPT !.phase = "ai",
                                   !.activity = outcome,
                                   !.context = systemContext(outcome)]
    /\ UNCHANGED <<state, username, graphData, posts, isLoadingPost, activePost,
                   view, obs, visible, sim, genInFlight, inflight, analysis, issued,
                   unhandled, now, trace, sinceFail>>

\* strategy 2, part_000:41-55: any throw is caught and null is returned; then
\* generateUserGraph chooses its prompt and calls the model, part_000:79-111
CorsProxy(outcome) ==
    /\ genInFlight
    /\ acquisition.phase = "corsProxy"
    /\ outcome # "emptyContents"
    /\ acquisition' =
          IF parseRedditResponse(outcome) = "throw"
          THEN [acquisition EXCEPT !.phase = "ai",
                                   !.activity = "null",
                                   !.errors = @ \cup {outcome},
                                   !.context = systemContext("null")]
          ELSE [acquisition EXCEPT !.phase = "ai",
                                   !.activity = outcome,
                                   !.context = systemContext(outcome)]
    /\ UNCHANGED <<state, username, graphData, posts, isLoadingPost, activePost,
                   view, obs, visible, sim, genInFlight, inflight, analysis, issued,
                   unhandled, now, trace, sinceFail>>

\* faulty variant: after a failure the loading screen stays
GenerateReject_staysAnalyzing ==
    /\ genInFlight
    /\ acquisition.phase = "ai"
    /\ genInFlight' = FALSE
    /\ acquisition' = Idle
    /\ UNCHANGED <<state, username, graphData, posts, isLoadingPost, activePost, view,
                   obs, visible, sim, inflight, analysis, issued, unhandled,
                   now, trace, sinceFail>>

\* generateUserGraph resolves, App.tsx:40-41: the parsed response is stored as
\* it is (part_000:176-177)
GenerateResolve(data) ==
    /\ genInFlight
    /\ acquisition.phase = "ai"
    /\ genInFlight' = FALSE
    /\ acquisition' = Idle
    /\ graphData' = data
    /\ state' = "GRAPH_VIEW"
    /\ UNCHANGED <<username, posts, isLoadingPost, activePost, view, obs, visible, sim,
                   inflight, analysis, issued, unhandled, now, trace, sinceFail>>

\* generateUserGraph rejects, App.tsx:42-46: the request fails, the response
\* has no text or the text is not JSON (part_000:176-177)
GenerateReject ==
    /\ genInFlight
    /\ acquisition.phase = "ai"
    /\ genInFlight' = FALSE
    /\ acquisition' = Idle
    /\ state' = "LOGIN"
    /\ UNCHANGED <<username, graphData, posts, isLoadingPost, activePost, view,
                   obs, visible, sim, inflight, analysis, issued, unhandled,
                   now, trace, sinceFail>>

----------------------------------------------------------------------------
(* Pagination *)

\* fetchNewPost up to its await, App.tsx:57-62, run with the closure of `view`:
\* the guard reads the isLoadingPost the render captured
fetchNewPost ==
    IF view.isLoadingPost
    THEN UNCHANGED <<isLoadingPost, inflight, sinceFail>>
    ELSE /\ isLoadingPost' = TRUE
         /\ inflight' = inflight + 1
         /\ sinceFail' = "none"

\* faulty variant: the simulator is entered without the first request
startSimulator_noFetch ==
    /\ view.state = "GRAPH_VIEW"
    /\ state = "GRAPH_VIEW"
    /\ state' = "SIMULATOR"
    /\ UNCHANGED <<isLoadingPost, inflight, sinceFail>>
    /\ UNCHANGED <<username, graphData, posts, activePost>>
    /\ Commit(FALSE)
    /\ UNCHANGED <<visible, sim, genInFlight, analysis, issued, unhandled, now, trace, acquisition>>

\* startSimulator, App.tsx:50-54 (a click: committed at once)
startSimulator ==
    /\ view.state = "GRAPH_VIEW"
    /\ state = "GRAPH_VIEW"
    /\ state' = "SIMULATOR"
    /\ fetchNewPost
    /\ UNCHANGED <<username, graphData, posts, activePost>>
    /\ Commit(FALSE)
    /\ UNCHANGED <<visible, sim, genInFlight, analysis, issued, unhandled, now, trace, acquisition>>

\* the load-more region crosses the 0.5 threshold (scrolling, layout change)
Scroll ==
    /\ view.state = "SIMULATOR"
    /\ view.activePost = NoPost
    /\ visible' = ~visible
    /\ sinceFail' = IF sinceFail = "failed" /\ visible' THEN "vis" ELSE sinceFail
    /\ UNCHANGED <<state, username, graphData, posts, isLoadingPost, activePost,
                   view, obs, sim, genInFlight, inflight, analysis, issued, unhandled, now, trace, acquisition>>

\* the IntersectionObserver callback, App.tsx:98-102: delivered once for a new
\* observer and then whenever the region's intersection state has changed
ObserverNotify ==
    /\ obs.on
    /\ obs.last # (IF visible THEN "in" ELSE "out")
    /\ obs' = [obs EXCEPT !.last = IF visible THEN "in" ELSE "out"]
    /\ IF visible /\ ~view.isLoadingPost
       THEN /\ inflight < MaxInFlight
            /\ fetchNewPost
       ELSE UNCHANGED <<isLoadingPost, inflight, sinceFail>>
    /\ UNCHANGED <<state, username, graphData, posts, activePost, view, visible, sim,
                   genInFlight, analysis, issued, unhandled, now, trace, acquisition>>

\* faulty variant: the in-flight flag stays set until the analysis is back
FetchResolve_awaitsAnalysis(topicId) ==
    /\ inflight > 0
    /\ LET newPost == [id |-> Len(posts) + 1, topicId |-> topicId,
                       userVote |-> "none", guardResult |-> "absent",
                       content |-> "text", upvotes |-> 20, comments |-> 0]
       IN /\ posts' = Append(posts, newPost)
          /\ analysis' = analysis \cup {newPost.id}
          /\ issued' = Append(issued, newPost.id)
    /\ isLoadingPost' = isLoadingPost
    /\ inflight' = inflight - 1
    /\ UNCHANGED <<state, username, graphData, activePost, view, obs, visible, sim,
                   genInFlight, unhandled, now, trace, sinceFail, acquisition>>

\* faulty variant: the new item is put at the head of the feed
FetchResolve_prepend(topicId) ==
    /\ inflight > 0
    /\ LET newPost == [id |-> Len(posts) + 1, topicId |-> topicId,
                       userVote |-> "none", guardResult |-> "absent",
                       content |-> "text", upvotes |-> 20, comments |-> 0]
       IN /\ posts' = <<newPost>> \o posts
          /\ analysis' = analysis \cup {newPost.id}
          /\ issued' = Append(issued, newPost.id)
    /\ isLoadingPost' = FALSE
    /\ inflight' = inflight - 1
    /\ UNCHANGED <<state, username, graphData, activePost, view, obs, visible, sim,
                   genInFlight, unhandled, now, trace, sinceFail, acquisition>>

\* faulty variant: every resolution analyses the whole feed again
FetchResolve_analyzeAll(topicId) ==
    /\ inflight > 0
    /\ LET newPost == [id |-> Len(posts) + 1, topicId |-> topicId,
                       userVote |-> "none", guardResult |-> "absent",
                       content |-> "text", upvotes |-> 20, comments |-> 0]
       IN /\ posts' = Append(posts, newPost)
          /\ analysis' = analysis \cup {posts'[i].id : i \in 1..Len(posts')}
          /\ issued' = issued \o [i \in 1..Len(posts') |-> posts'[i].id]
    /\ isLoadingPost' = FALSE
    /\ inflight' = inflight - 1
    /\ UNCHANGED <<state, username, graphData, activePost, view, obs, visible, sim,
                   genInFlight, unhandled, now, trace, sinceFail, acquisition>>

\* the post generateNextPost returns for the parsed response `data` and a fresh
\* uuid, part_000:262-269: the fields of the response are spread after the id;
\* content stands for what is displayed (title, subreddit, author, content,
\* timestamp), upvotes and comments are the engagement counters
generateNextPost(data, uuid) ==
    [id |-> IF "id" \in DOMAIN data THEN data.id ELSE uuid,
     topicId |-> data.topicId, userVote |-> "none", guardResult |-> "absent",
     content |-> "text", upvotes |-> 20, comments |-> 0]

\* fetchNewPost after its await, App.tsx:62-89, for a parsed response `data`
FetchResolveData(data) ==
    /\ inflight > 0
    /\ LET newPost == generateNextPost(data, Len(posts) + 1)
       IN /\ posts' = Append(posts, newPost)
          /\ analysis' = analysis \cup {newPost.id}
          /\ issued' = Append(issued, newPost.id)
    /\ isLoadingPost' = FALSE
    /\ inflight' = inflight - 1
    /\ UNCHANGED <<state, username, graphData, activePost, view, obs, visible, sim,
                   genInFlight, unhandled, now, trace, sinceFail, acquisition>>

\* the same for a response with the fields of the schema only, part_000:232-242
FetchResolve(topicId) == FetchResolveData([topicId |-> topicId])

\* faulty variant: the flag is cleared on success only (no finally)
FetchReject_noFinally ==
    /\ inflight > 0
    /\ inflight' = inflight - 1
    /\ sinceFail' = "failed"
    /\ UNCHANGED <<state, username, graphData, posts, isLoadingPost, activePost,
                   view, obs, visible, sim, genInFlight, analysis, issued, unhandled, now, trace, acquisition>>

\* generateNextPost rejects: catch and finally, App.tsx:85-89
FetchReject ==
    /\ inflight > 0
    /\ isLoadingPost' = FALSE
    /\ inflight' = inflight - 1
    /\ sinceFail' = "failed"
    /\ UNCHANGED <<state, username, graphData, posts, activePost, view, obs,
                   visible, sim, genInFlight, analysis, issued, unhandled, now, trace, acquisition>>

\* faulty variant: the result is merged into the feed as it was when the request
\* was issued, where no other item had a result yet
mergeGuard_staleFeed(currentPosts, id, riskResult) ==
    [i \in 1..Len(currentPosts) |->
        IF currentPosts[i].id = id
        THEN [currentPosts[i] EXCEPT !.guardResult = riskResult]
        ELSE [currentPosts[i] EXCEPT !.guardResult = "absent"]]

\* faulty variant: the item is replaced by the copy captured when the request
\* was issued (not voted on), with the result attached
mergeGuard_captured(currentPosts, id, riskResult) ==
    [i \in 1..Len(currentPosts) |->
        IF currentPosts[i].id = id
        THEN [currentPosts[i] EXCEPT !.userVote = "none", !.guardResult = riskResult]
        ELSE currentPosts[i]]

\* the setPosts updater of the .then callback, App.tsx:70-74
mergeGuard(currentPosts, id, riskResult) ==
    [i \in 1..Len(currentPosts) |->
        IF currentPosts[i].id = id
        THEN [currentPosts[i] EXCEPT !.guardResult = riskResult]
        ELSE currentPosts[i]]

\* faulty variant: the result is attached to whatever item is open
mergeActive_anyOpen(currentActive, id, riskResult) ==
    IF currentActive # NoPost
    THEN [currentActive EXCEPT !.guardResult = riskResult]
    ELSE currentActive

\* the setActivePost updater of the .then callback, App.tsx:77-82
mergeActive(currentActive, id, riskResult) ==
    IF currentActive # NoPost /\ currentActive.id = id
    THEN [currentActive EXCEPT !.guardResult = riskResult]
    ELSE currentActive

\* analyzePostRisk resolves: the .then callback, App.tsx:69-83
EnrichResolve(id, riskResult) ==
    /\ id \in analysis
    /\ analysis' = analysis \ {id}
    /\ posts' = mergeGuard(posts, id, riskResult)
    /\ activePost' = mergeActive(activePost, id, riskResult)
    /\ UNCHANGED <<state, username, graphData, isLoadingPost, view, obs, visible, sim,
                   genInFlight, inflight, issued, unhandled, now, trace, sinceFail, acquisition>>

\* faulty variant: the failure clears the pagination in-flight flag
EnrichReject_clearsFlag(id) ==
    /\ id \in analysis
    /\ analysis' = analysis \ {id}
    /\ unhandled' = TRUE
    /\ isLoadingPost' = FALSE
    /\ UNCHANGED <<state, username, graphData, posts, activePost,
                   view, obs, visible, sim, genInFlight, inflight, issued, now, trace,
                   sinceFail, acquisition>>

\* analyzePostRisk rejects, App.tsx:69: the promise made by .then rejects in
\* turn; it is not awaited, so the enclosing try does not cover it, and it has
\* no .catch: the runtime reports an unhandled rejection
EnrichReject(id) ==
    /\ id \in analysis
    /\ analysis' = analysis \ {id}
    /\ unhandled' = TRUE
    /\ UNCHANGED <<state, username, graphData, posts, isLoadingPost, activePost,
                   view, obs, visible, sim, genInFlight, inflight, issued, now, trace,
                   sinceFail, acquisition>>

\* React commits updates made outside a click handler
Render ==
    /\ view # Snapshot
    /\ UNCHANGED <<state, username, graphData, posts, isLoadingPost, activePost>>
    /\ Commit(FALSE)
    /\ UNCHANGED <<visible, sim, genInFlight, inflight, analysis, issued, unhandled, now, trace, sinceFail, acquisition>>

----------------------------------------------------------------------------
(* Interactions *)

\* faulty variant: the handler reads the item as it was when it was appended,
\* not the item of the last render
handleInteraction_staleVote(type, topicId, postId, active0) ==
    LET currentPost == [FindPost(view.posts, postId) EXCEPT !.userVote = "none"]
        vote == newVote(type, currentPost.userVote)
        delta == weightChange(type, currentPost.userVote)
    IN  IF currentPost = NoPost
        THEN /\ activePost' = active0
             /\ UNCHANGED <<posts, graphData, now>>
        ELSE /\ posts' = updatePosts(posts, postId, type, vote)
             /\ activePost' = IF view.activePost # NoPost /\ view.activePost.id = postId
                              THEN updateActive(active0, type, vote)
                              ELSE active0
             /\ graphData' = IF delta # 0
                             THEN updateGraph(graphData, topicId, delta, now)
                             ELSE graphData
             /\ now' = now + 1

\* handleInteraction, App.tsx:112-178, run with the closures of `view`;
\* active0 is the activePost the updaters start from
handleInteraction(type, topicId, postId, active0) ==
    LET currentPost == FindPost(view.posts, postId)
        vote == newVote(type, currentPost.userVote)
        delta == weightChange(type, currentPost.userVote)
    IN  IF currentPost = NoPost
        THEN /\ activePost' = active0
             /\ UNCHANGED <<posts, graphData, now>>
        ELSE /\ posts' = updatePosts(posts, postId, type, vote)
             /\ activePost' = IF view.activePost # NoPost /\ view.activePost.id = postId
                              THEN updateActive(active0, type, vote)
                              ELSE active0
             /\ graphData' = IF delta # 0
                             THEN updateGraph(graphData, topicId, delta, now)
                             ELSE graphData
             /\ now' = now + 1

\* onInteract of a PostCard of the feed, App.tsx:379-384, PostDetail.tsx:151-174
CardInteract(i, type) ==
    /\ view.state = "SIMULATOR"
    /\ view.activePost = NoPost
    /\ i \in 1..Len(view.posts)
    /\ LET post == view.posts[i]
       IN handleInteraction(type, post.topicId, post.id,
                            IF type = "click" THEN post ELSE activePost)
    /\ UNCHANGED <<state, username, isLoadingPost>>
    \* setGraphData stores a new nodes array: fetchNewPost and the effect re-run
    /\ Commit(FindPost(view.posts, view.posts[i].id) # NoPost)
    /\ UNCHANGED <<visible, sim, genInFlight, inflight, analysis, issued, unhandled, sinceFail, acquisition>>

\* onInteract of the open PostDetail, App.tsx:334-339, PostDetail.tsx:94-108
DetailInteract(type) ==
    /\ view.state = "SIMULATOR"
    /\ view.activePost # NoPost
    /\ type \in {"upvote", "downvote"}
    /\ handleInteraction(type, view.activePost.topicId, view.activePost.id, activePost)
    /\ UNCHANGED <<state, username, isLoadingPost>>
    /\ Commit(FindPost(view.posts, view.activePost.id) # NoPost)
    /\ UNCHANGED <<visible, sim, genInFlight, inflight, analysis, issued, unhandled, sinceFail, acquisition>>

\* onBack of the open PostDetail, App.tsx:336
Back ==
    /\ view.state = "SIMULATOR"
    /\ view.activePost # NoPost
    /\ activePost' = NoPost
    /\ UNCHANGED <<state, username, graphData, posts, isLoadingPost>>
    /\ Commit(FALSE)
    /\ UNCHANGED <<visible, sim, genInFlight, inflight, analysis, issued, unhandled, now, trace, sinceFail, acquisition>>

----------------------------------------------------------------------------
(* The application *)

Types == {"upvote", "downvote", "click"}

Next ==
    \/ \E u \in Usernames : SetUsername(u)
    \/ handleLogin
    \/ handleAnalysisComplete
    \/ \E o \in ProxyOutcomes : AllOrigins(o)
    \/ \E o \in ProxyOutcomes : CorsProxy(o)
    \/ \E w \in GenWeights : GenerateResolve(Graph(w))
    \/ GenerateReject
    \/ startSimulator
    \/ Scroll
    \/ ObserverNotify
    \/ \E t \in TopicIds : Len(posts) < MaxPosts /\ FetchResolve(t)
    \/ FetchReject
    \/ \E id \in analysis, r \in Results : EnrichResolve(id, r)
    \/ \E id \in analysis : EnrichReject(id)
    \/ Render
    \/ \E i \in 1..Len(view.posts), type \in Types :
          now <= MaxInteractions /\ CardInteract(i, type) /\ UNCHANGED trace
    \/ \E type \in Types :
          now <= MaxInteractions /\ DetailInteract(type) /\ UNCHANGED trace
    \/ Back

Spec == Init /\ [][Next]_vars

----------------------------------------------------------------------------
(* One feed item about node n1, any weight, and the interactions on it *)

InitVote ==
    /\ state = "SIMULATOR"
    /\ username = "u1"
    /\ \E w \in MinWeight..MaxWeight : graphData = Graph(w)
    /\ \E t \in TopicIds :
          posts = <<[id |-> 1, topicId |-> t, userVote |-> "none",
                     guardResult |-> "absent",
                     content |-> "text", upvotes |-> 20, comments |-> 0]>>
    /\ isLoadingPost = FALSE
    /\ activePost = NoPost
    /\ view = [state |-> state, isLoadingPost |-> isLoadingPost, posts |-> posts,
               activePost |-> activePost, nodes |-> graphData.nodes]
    /\ obs = [on |-> TRUE, last |-> "in"]
    /\ visible = TRUE
    /\ sim = NoSim
    /\ acquisition = Idle
    /\ genInFlight = FALSE
    /\ inflight = 0
    /\ analysis = {}
    /\ issued = <<1>>
    /\ unhandled = TRUE
    /\ now = 1
    /\ trace = <<>>
    /\ sinceFail = "none"

\* history: what an interaction on `post` did to its vote state and its node
Record(type, post) ==
    trace' = Append(trace,
        [type |-> type, postId |-> post.id, topicId |-> post.topicId,
         prior |-> FindPost(posts, post.id).userVote,
         vote |-> FindPost(posts', post.id).userVote,
         before |-> WeightOf(graphData, post.topicId),
         after |-> WeightOf(graphData', post.topicId)])

NextVote ==
    \/ \E i \in 1..Len(view.posts), type \in Types :
          /\ now <= MaxTrace
          /\ CardInteract(i, type)
          /\ Record(type, view.posts[i])
    \/ \E type \in Types :
          /\ now <= MaxTrace
          /\ DetailInteract(type)
          /\ Record(type, view.activePost)
    \/ Back

SpecVote == InitVote /\ [][NextVote]_vars

----------------------------------------------------------------------------
(* The feed after startSimulator: pagination, enrichment and interactions *)

\* what analyzePostRisk returns when the response has no text, part_000:347
AnalysisFailed == "analysisFailed"

\* the generated posts of this run are all about node n1
FeedTopics == {"n1"}

InitFeed ==
    /\ state = "SIMULATOR"
    /\ username = "u1"
    /\ \E w \in GenWeights : graphData = Graph(w)
    /\ posts = <<>>
    /\ isLoadingPost = TRUE
    /\ activePost = NoPost
    /\ view = [state |-> state, isLoadingPost |-> isLoadingPost, posts |-> posts,
               activePost |-> activePost, nodes |-> graphData.nodes]
    /\ obs = [on |-> TRUE, last |-> "none"]
    /\ visible = TRUE
    /\ sim = NoSim
    /\ acquisition = Idle
    /\ genInFlight = FALSE
    /\ inflight = 1
    /\ analysis = {}
    /\ issued = <<>>
    /\ unhandled = FALSE
    /\ now = 1
    /\ trace = <<>>
    /\ sinceFail = "none"

NextFeed ==
    \/ ObserverNotify
    \/ \E t \in FeedTopics : Len(posts) < MaxFeed /\ FetchResolve(t)
    \/ \E id \in analysis, r \in Results \cup {AnalysisFailed} : EnrichResolve(id, r)
    \/ \E id \in analysis : EnrichReject(id)
    \/ Render
    \/ \E i \in 1..Len(view.posts), type \in Types :
          now <= MaxInteractions /\ CardInteract(i, type) /\ UNCHANGED trace
    \/ \E type \in Types :
          now <= MaxInteractions /\ DetailInteract(type) /\ UNCHANGED trace
    \/ Back

SpecFeed == InitFeed /\ [][NextFeed]_vars

----------------------------------------------------------------------------
(* The InterestGraph component of the simulator view *)

\* every variable but sim and now
appVars == <<state, username, graphData, posts, isLoadingPost, activePost, view,
             obs, visible, genInFlight, acquisition, inflight, analysis, issued,
             unhandled, trace, sinceFail>>

\* the dependencies [data.nodes.length, data.links.length] of the first effect
Topo(gd) == <<Cardinality(gd.nodes), Cardinality(gd.links)>>

\* data.nodes.find(n => n.id === d.id)
NodeOf(gd, id) == CHOOSE n \in gd.nodes : n.id = id

HasNode(gd, id) == \E n \in gd.nodes : n.id = id

\* the radius function given to d3.forceCollide, evaluated when the force is
\* initialized, InterestGraph.tsx:55 and 192
collideOf(val) == [id \in DOMAIN val |-> val[id] + CollidePadding]

\* the props of the committed render have reached the component and both
\* effects have run for them
Flushed ==
    /\ view.nodes = graphData.nodes
    /\ sim.topo = Topo(graphData)
    /\ sim.seen = graphData

\* faulty variant: effect 1 depends on data itself and runs on every update
initSimulation_onData ==
    /\ view.state = "SIMULATOR"
    /\ view.nodes = graphData.nodes
    /\ sim.topo # Topo(graphData) \/ sim.seen # graphData
    /\ graphData.nodes # {}
    /\ sim' = LET ids == {n.id : n \in graphData.nodes}
                  val == [id \in ids |-> NodeOf(graphData, id).val]
              IN  [on |-> TRUE,
                   interactive |-> sim.interactive,
                   handlers |-> sim.interactive,
                   topo |-> Topo(graphData),
                   seed |-> sim.seed + 1,
                   val |-> val,
                   collide |-> collideOf(val),
                   pos |-> [id \in ids |-> "seeded"],
                   pinned |-> {},
                   running |-> TRUE,
                   pulsed |-> {},
                   resized |-> {},
                   seen |-> graphData]
    /\ UNCHANGED <<appVars, now>>

\* effect 1, InterestGraph.tsx:26-140: runs when the node or link count
\* changed; clears the drawing and builds a new simulation from copies of the
\* nodes (the cleanup of the previous run has stopped the old one)
initSimulation ==
    /\ view.state = "SIMULATOR"
    /\ view.nodes = graphData.nodes
    /\ sim.topo # Topo(graphData)
    /\ sim' = IF graphData.nodes = {}
              THEN [sim EXCEPT !.topo = Topo(graphData), !.running = FALSE]
              ELSE LET ids == {n.id : n \in graphData.nodes}
                       val == [id \in ids |-> NodeOf(graphData, id).val]
                   IN  [on |-> TRUE,
                        interactive |-> sim.interactive,
                        handlers |-> sim.interactive,
                        topo |-> Topo(graphData),
                        seed |-> sim.seed + 1,
                        val |-> val,
                        collide |-> collideOf(val),
                        pos |-> [id \in ids |-> "seeded"],
                        pinned |-> {},
                        running |-> TRUE,
                        pulsed |-> {},
                        resized |-> {},
                        seen |-> sim.seen]
    /\ UNCHANGED <<appVars, now>>

\* faulty variant: the simulation is restarted with the collision force as it was
liveUpdate_staleCollide ==
    /\ view.state = "SIMULATOR"
    /\ view.nodes = graphData.nodes
    /\ sim.topo = Topo(graphData)
    /\ sim.seen # graphData
    /\ sim' =
         IF ~sim.on THEN [sim EXCEPT !.seen = graphData]
         ELSE LET ids == DOMAIN sim.val
                  found == {id \in ids : HasNode(graphData, id)}
                  val == [id \in ids |-> IF id \in found
                                          THEN NodeOf(graphData, id).val
                                          ELSE sim.val[id]]
                  pulsed == {id \in found :
                                /\ NodeOf(graphData, id).lastUpdated # NoTime
                                /\ now - NodeOf(graphData, id).lastUpdated < RecencyWindow}
                  resized == {id \in found \ pulsed : sim.val[id] # val[id]}
                  hasUpdates == pulsed \cup resized # {}
              IN  [sim EXCEPT !.val = val,
                              !.pulsed = pulsed,
                              !.resized = resized,
                              !.running = IF hasUpdates THEN TRUE ELSE @,
                              !.seen = graphData]
    /\ UNCHANGED <<appVars, now>>

\* faulty variant: every node whose weight changed is pulsed, whatever its stamp
liveUpdate_pulseOnChange ==
    /\ view.state = "SIMULATOR"
    /\ view.nodes = graphData.nodes
    /\ sim.topo = Topo(graphData)
    /\ sim.seen # graphData
    /\ sim' =
         IF ~sim.on THEN [sim EXCEPT !.seen = graphData]
         ELSE LET ids == DOMAIN sim.val
                  found == {id \in ids : HasNode(graphData, id)}
                  val == [id \in ids |-> IF id \in found
                                          THEN NodeOf(graphData, id).val
                                          ELSE sim.val[id]]
                  pulsed == {id \in found :
                                \/ sim.val[id] # val[id]
                                \/ /\ NodeOf(graphData, id).lastUpdated # NoTime
                                   /\ now - NodeOf(graphData, id).lastUpdated < RecencyWindow}
                  resized == {id \in found \ pulsed : sim.val[id] # val[id]}
                  hasUpdates == pulsed \cup resized # {}
              IN  [sim EXCEPT !.val = val,
                              !.pulsed = pulsed,
                              !.resized = resized,
                              !.collide = IF hasUpdates THEN collideOf(val) ELSE @,
                              !.running = IF hasUpdates THEN TRUE ELSE @,
                              !.seen = graphData]
    /\ UNCHANGED <<appVars, now>>

\* faulty variant: only the nodes with a recent stamp take their new weight
liveUpdate_onlyRecent ==
    /\ view.state = "SIMULATOR"
    /\ view.nodes = graphData.nodes
    /\ sim.topo = Topo(graphData)
    /\ sim.seen # graphData
    /\ sim' =
         IF ~sim.on THEN [sim EXCEPT !.seen = graphData]
         ELSE LET ids == DOMAIN sim.val
                  found == {id \in ids : HasNode(graphData, id)}
                  pulsed == {id \in found :
                                /\ NodeOf(graphData, id).lastUpdated # NoTime
                                /\ now - NodeOf(graphData, id).lastUpdated < RecencyWindow}
                  val == [id \in ids |-> IF id \in pulsed
                                          THEN NodeOf(graphData, id).val
                                          ELSE sim.val[id]]
                  resized == {}
                  hasUpdates == pulsed \cup resized # {}
              IN  [sim EXCEPT !.val = val,
                              !.pulsed = pulsed,
                              !.resized = resized,
                              !.collide = IF hasUpdates THEN collideOf(val) ELSE @,
                              !.running = IF hasUpdates THEN TRUE ELSE @,
                              !.seen = graphData]
    /\ UNCHANGED <<appVars, now>>

\* effect 2, InterestGraph.tsx:143-196: runs when data changed, after effect 1
liveUpdate ==
    /\ view.state = "SIMULATOR"
    /\ view.nodes = graphData.nodes
    /\ sim.topo = Topo(graphData)
    /\ sim.seen # graphData
    /\ sim' =
         IF ~sim.on THEN [sim EXCEPT !.seen = graphData]
         ELSE LET ids == DOMAIN sim.val
                  found == {id \in ids : HasNode(graphData, id)}
                  val == [id \in ids |-> IF id \in found
                                          THEN NodeOf(graphData, id).val
                                          ELSE sim.val[id]]
                  pulsed == {id \in found :
                                /\ NodeOf(graphData, id).lastUpdated # NoTime
                                /\ now - NodeOf(graphData, id).lastUpdated < RecencyWindow}
                  resized == {id \in found \ pulsed : sim.val[id] # val[id]}
                  hasUpdates == pulsed \cup resized # {}
              IN  [sim EXCEPT !.val = val,
                              !.pulsed = pulsed,
                              !.resized = resized,
                              !.collide = IF hasUpdates THEN collideOf(val) ELSE @,
                              !.running = IF hasUpdates THEN TRUE ELSE @,
                              !.seen = graphData]
    /\ UNCHANGED <<appVars, now>>

\* a tick of the running simulation, InterestGraph.tsx:99-108: the forces
\* move every node that is not pinned
Tick ==
    /\ sim.on
    /\ sim.running
    /\ \E id \in DOMAIN sim.pos : id \notin sim.pinned /\ sim.pos[id] # "moved"
    /\ sim' = [sim EXCEPT !.pos = [id \in DOMAIN sim.pos |->
                                     IF id \in sim.pinned THEN sim.pos[id] ELSE "moved"]]
    /\ UNCHANGED <<appVars, now>>

\* alpha has decayed below alphaMin: the simulation's timer stops (d3-force);
\* during a drag alphaTarget(0.3) keeps it running
Cool ==
    /\ sim.on
    /\ sim.running
    /\ sim.pinned = {}
    /\ sim' = [sim EXCEPT !.running = FALSE]
    /\ UNCHANGED <<appVars, now>>

\* a drag gesture starts on a node, InterestGraph.tsx:110-118; the listeners
\* are those the last run of effect 1 installed
dragstarted(id) ==
    /\ sim.on
    /\ sim.handlers
    /\ id \in DOMAIN sim.val
    /\ id \notin sim.pinned
    /\ sim' = [sim EXCEPT !.pinned = @ \cup {id}, !.running = TRUE]
    /\ UNCHANGED <<appVars, now>>

\* the drag gesture ends, InterestGraph.tsx:125-129
dragended(id) ==
    /\ sim.on
    /\ sim.handlers
    /\ id \in sim.pinned
    /\ sim' = [sim EXCEPT !.pinned = @ \ {id}]
    /\ UNCHANGED <<appVars, now>>

\* time passes until no stamp is recent any more
Elapse ==
    /\ \E n \in graphData.nodes :
          n.lastUpdated # NoTime /\ now - n.lastUpdated < RecencyWindow
    /\ now' = now + RecencyWindow
    /\ UNCHANGED <<appVars, sim>>

\* the parent renders the component with the other value of the prop
\* interactive (InterestGraph.tsx:11, 20).  No dependency array names the prop
\* (140, 196), so no effect runs: the zoom and drag behaviours stay as effect 1
\* installed them.
SetInteractive ==
    /\ sim' = [sim EXCEPT !.interactive = ~@]
    /\ UNCHANGED <<appVars, now>>

\* the posts generated in a run of SpecGraph: one about n1, one about n2
GraphTopics == {"n1", "n2"}

\* the nodes the user drags in a run of SpecGraph
DragNodes == {"n1"}

\* interactions handled so far: each takes a millisecond, waits take whole
\* recency windows
Handled == (now - 1) % RecencyWindow

InitGraph ==
    /\ state = "SIMULATOR"
    /\ username = "u1"
    /\ \E w \in GenWeights : graphData = Graph(w)
    /\ posts = <<>>
    /\ isLoadingPost = TRUE
    /\ activePost = NoPost
    /\ view = [state |-> state, isLoadingPost |-> isLoadingPost, posts |-> posts,
               activePost |-> activePost, nodes |-> graphData.nodes]
    /\ obs = [on |-> TRUE, last |-> "none"]
    /\ visible = TRUE
    /\ sim = NoSim
    /\ acquisition = Idle
    /\ genInFlight = FALSE
    /\ inflight = 1
    /\ analysis = {}
    /\ issued = <<>>
    /\ unhandled = FALSE
    /\ now = 1
    /\ trace = <<>>
    /\ sinceFail = "none"

NextGraph ==
    \/ initSimulation
    \/ liveUpdate
    \/ Tick
    \/ Cool
    \/ \E id \in DragNodes : dragstarted(id)
    \/ \E id \in DragNodes : dragended(id)
    \/ Elapse
    \/ SetInteractive
    \/ Flushed /\ inflight = 0 /\ ObserverNotify
    \/ \E t \in GraphTopics :
          /\ \A i \in 1..Len(posts) : posts[i].topicId # t
          /\ FetchResolve(t)
    \/ Flushed /\ Render
    \/ \E i \in 1..Len(view.posts), type \in Types :
          /\ Flushed
          /\ Handled < MaxInteractions
          /\ CardInteract(i, type)
          /\ UNCHANGED trace
    \/ \E type \in Types :
          /\ Flushed
          /\ Handled < MaxInteractions
          /\ DetailInteract(type)
          /\ UNCHANGED trace
    \/ Flushed /\ Back

SpecGraph == InitGraph /\ [][NextGraph]_vars

----------------------------------------------------------------------------
(* Login and graph generation on their own, with responses of the model that *)
(* the schema admits: val is an INTEGER, its range is only asked for in the   *)
(* prompt (part_000:103, 125, 151).                                           *)

ResponseWeights == {5, 50, 200}

\* parsed responses of generateNextPost (part_000:249, JSON.parse of the text):
\* with the fields of the schema, and with a field id of its own besides
PostResponses == {[topicId |-> "n1"], [topicId |-> "n1", id |-> 100]}

NextService ==
    \/ \E u \in Usernames : SetUsername(u)
    \/ handleLogin
    \/ handleAnalysisComplete
    \/ \E o \in ProxyOutcomes : AllOrigins(o)
    \/ \E o \in ProxyOutcomes : CorsProxy(o)
    \/ \E w \in ResponseWeights : GenerateResolve(Graph(w))
    \/ GenerateReject
    \/ Render
    \/ startSimulator
    \/ ObserverNotify
    \/ \E d \in PostResponses : Len(posts) < MaxFeed /\ FetchResolveData(d)
    \/ FetchReject

SpecService == Init /\ [][NextService]_vars

----------------------------------------------------------------------------
(* The interaction table of the specification, section 4.1 *)

Table ==
    {[type |-> "upvote",   prior |-> "none", vote |-> "up",   delta |-> 25],
     [type |-> "upvote",   prior |-> "up",   vote |-> "none", delta |-> -25],
     [type |-> "upvote",   prior |-> "down", vote |-> "up",   delta |-> 45],
     [type |-> "downvote", prior |-> "none", vote |-> "down", delta |-> -20],
     [type |-> "downvote", prior |-> "down", vote |-> "none", delta |-> 20],
     [type |-> "downvote", prior |-> "up",   vote |-> "down", delta |-> -45],
     [type |-> "click",    prior |-> "none", vote |-> "none", delta |-> 5],
     [type |-> "click",    prior |-> "up",   vote |-> "up",   delta |-> 5],
     [type |-> "click",    prior |-> "down", vote |-> "down", delta |-> 5]}

Row(type, prior) == CHOOSE r \in Table : r.type = type /\ r.prior = prior

\* clamp(x, 10, 180) of section 4.1
Clamped(x) == IF x < MinWeight THEN MinWeight ELSE IF x > MaxWeight THEN MaxWeight ELSE x

InRange(w) == MinWeight <= w /\ w <= MaxWeight

\* the interaction was addressed to a node of the graph
OnNode(e) == \E n \in graphData.nodes : n.id = e.topicId

IsVote(e) == e.type \in {"upvote", "downvote"}

\* the vote that clears vote state v, and the one that sets the opposite state
ClearType(v) == IF v = "up" THEN "upvote" ELSE "downvote"
FlipType(v) == IF v = "up" THEN "downvote" ELSE "upvote"

\* the update of e stored before + delta itself: clamping truncated nothing
Untruncated(e) == InRange(e.before + weightChange(e.type, e.prior))

----------------------------------------------------------------------------
(* Claims about the interaction state machine, under SpecVote *)

\* C1: for every prior weight in [10,180] and every delta handleInteraction
\* produces, the weight stored for the target node after the update is in
\* [10,180]; so every node of the graph store stays in [10,180].
C1_WeightInRange ==
    /\ \A n \in graphData.nodes : InRange(n.val)
    /\ \A k \in 1..Len(trace) :
          (OnNode(trace[k]) /\ InRange(trace[k].before)) => InRange(trace[k].after)

\* a flip up -> down (-45) from a weight below 55 is cut off at 10
C1_Witness ==
    \E k \in 1..Len(trace) :
        /\ OnNode(trace[k])
        /\ trace[k].type = "downvote" /\ trace[k].prior = "up"
        /\ trace[k].before - 45 < MinWeight
        /\ trace[k].after = MinWeight

\* C2: an upvote or downvote on an item in vote state s produces the table's
\* new vote state, and the target node's weight becomes clamp(old + delta) for
\* the table's delta.
C2_VoteTable ==
    \A k \in 1..Len(trace) :
        IsVote(trace[k]) =>
            LET e == trace[k]
                r == Row(e.type, e.prior)
            IN  /\ e.vote = r.vote
                /\ OnNode(e) => e.after = Clamped(e.before + r.delta)

\* an upvote on a downvoted item that adds the full 45
C2_Witness ==
    \E k \in 1..Len(trace) :
        /\ OnNode(trace[k])
        /\ trace[k].type = "upvote" /\ trace[k].prior = "down"
        /\ trace[k].vote = "up"
        /\ trace[k].after = trace[k].before + 45

\* C3: a click leaves the item's vote state as it was, whatever it was, and
\* adds 5 (clamped) to the node the item's topicId names.
C3_ClickKeepsVote ==
    \A k \in 1..Len(trace) :
        trace[k].type = "click" =>
            /\ trace[k].vote = trace[k].prior
            /\ OnNode(trace[k]) => trace[k].after = Clamped(trace[k].before + 5)

\* a click on a downvoted item
C3_Witness ==
    \E k \in 1..Len(trace) :
        /\ OnNode(trace[k])
        /\ trace[k].type = "click" /\ trace[k].prior = "down"
        /\ trace[k].vote = "down"
        /\ trace[k].after = trace[k].before + 5

\* C4: from vote state none, the same vote twice in a row returns the vote
\* state to none and the node's weight to its pre-vote value, up to what
\* clamping cut off the first vote: exactly the pre-vote value when nothing was
\* cut off, and otherwise off by exactly the amount cut off.
C4_ToggleTwice ==
    \A k \in 1..(Len(trace) - 1) :
        LET e1 == trace[k]
            e2 == trace[k + 1]
            cut == (e1.before + Row(e1.type, "none").delta) - e1.after
        IN  (IsVote(e1) /\ e1.prior = "none" /\ e2.type = e1.type
                /\ e2.postId = e1.postId) =>
                /\ e2.vote = "none"
                /\ OnNode(e1) => e2.after = e1.before - cut

\* an upvote and its undoing, nothing cut off
C4_Witness ==
    \E k \in 1..(Len(trace) - 1) :
        /\ OnNode(trace[k])
        /\ trace[k].type = "upvote" /\ trace[k].prior = "none"
        /\ trace[k + 1].type = "upvote"
        /\ trace[k].after = trace[k].before + 25
        /\ trace[k + 1].vote = "none"
        /\ trace[k + 1].after = trace[k].before

\* C5: where clamping truncates no step, a direct flip of a vote gives the
\* weight and vote state that clearing the old vote and then applying the new
\* one give.  Checked both ways: two handled steps clear-then-apply against the
\* handler's direct flip from the same start, and a handled direct flip
\* against the composition of the two single updates.
C5_FlipEqualsTwoSteps ==
    /\ \A k \in 1..(Len(trace) - 1) :
          LET e1 == trace[k]
              e2 == trace[k + 1]
          IN  (OnNode(e1) /\ e1.prior # "none" /\ e1.type = ClearType(e1.prior)
                  /\ e2.type = FlipType(e1.prior) /\ e2.postId = e1.postId
                  /\ Untruncated(e1) /\ Untruncated(e2)) =>
                  /\ e2.vote = newVote(e2.type, e1.prior)
                  /\ e2.after = newVal(e1.before, weightChange(e2.type, e1.prior))
    /\ \A k \in 1..Len(trace) :
          LET e == trace[k]
              mid == newVal(e.before, weightChange(ClearType(e.prior), e.prior))
          IN  (OnNode(e) /\ e.prior # "none" /\ e.type = FlipType(e.prior)
                  /\ Untruncated(e)) =>
                  /\ e.vote = newVote(e.type, newVote(ClearType(e.prior), e.prior))
                  /\ e.after = newVal(mid, weightChange(e.type, "none"))

\* up, cleared, then down: 45 below the upvoted weight
C5_Witness ==
    \E k \in 1..(Len(trace) - 1) :
        /\ OnNode(trace[k])
        /\ trace[k].prior = "up" /\ trace[k].type = "upvote"
        /\ trace[k + 1].type = "downvote"
        /\ Untruncated(trace[k]) /\ Untruncated(trace[k + 1])
        /\ trace[k + 1].vote = "down"
        /\ trace[k + 1].after = trace[k].before - 45

\* C6: node of weight 50, item in vote state none: upvote, upvote, downvote
\* give the weights 75, 50, 30.
C6_Scenario ==
    (Len(trace) >= 1 /\ OnNode(trace[1]) /\ trace[1].before = 50
        /\ trace[1].type = "upvote") =>
        /\ trace[1].after = 75
        /\ (Len(trace) >= 2 /\ trace[2].type = "upvote") =>
              /\ trace[2].after = 50
              /\ (Len(trace) >= 3 /\ trace[3].type = "downvote") =>
                    trace[3].after = 30

C6_Witness ==
    /\ Len(trace) = 3
    /\ OnNode(trace[1]) /\ trace[1].before = 50
    /\ trace[1].type = "upvote" /\ trace[2].type = "upvote"
    /\ trace[3].type = "downvote"
    /\ trace[3].after = 30
    /\ WeightOf(graphData, "n1") = 30

\* C7: an upvote from none at weight 175 stores 180, and nothing of the 20
\* cut off is kept: every later update starts from the stored value and
\* stores clamp(stored + delta) for the table's full delta.
C7_NoCarryOver ==
    /\ (Len(trace) >= 1 /\ OnNode(trace[1]) /\ trace[1].before = 175
           /\ trace[1].type = "upvote") => trace[1].after = 180
    /\ \A k \in 1..(Len(trace) - 1) :
          (OnNode(trace[k]) /\ trace[k + 1].postId = trace[k].postId) =>
              /\ trace[k + 1].before = trace[k].after
              /\ trace[k + 1].after =
                    Clamped(trace[k].after
                            + Row(trace[k + 1].type, trace[k + 1].prior).delta)

\* 175 -> 180, and clearing the upvote takes the full 25 from 180
C7_Witness ==
    /\ Len(trace) >= 2
    /\ OnNode(trace[1]) /\ trace[1].before = 175
    /\ trace[1].type = "upvote" /\ trace[1].after = 180
    /\ trace[2].type = "upvote" /\ trace[2].after = 155

----------------------------------------------------------------------------
(* Claims about pagination, under Spec *)

\* C8: at every moment at most one generateNextPost request is outstanding,
\* also when triggers arrive before the render with the in-flight flag set.
C8_AtMostOneInFlight == inflight <= 1

\* C9: a step in which a generateNextPost request fails (a request completes
\* and the feed did not grow) clears the in-flight flag, leaves the feed and
\* the graph unchanged and issues no enrichment request.
C9_FailureClearsFlag ==
    [][(inflight' < inflight /\ Len(posts') = Len(posts)) =>
          /\ isLoadingPost' = FALSE
          /\ posts' = posts
          /\ graphData' = graphData
          /\ analysis' = analysis]_vars

\* the only request has failed: flag clear, feed empty, nothing to enrich
C9_Witness ==
    /\ sinceFail = "failed"
    /\ inflight = 0
    /\ isLoadingPost = FALSE
    /\ posts = <<>>
    /\ analysis = {}

\* C10: after a generateNextPost failure no request is issued until the
\* load-more region has become visible anew after the failure.
C10_NoAutomaticRetry ==
    [][inflight' > inflight => sinceFail # "failed"]_vars

\* C11: a generateNextPost request is issued only in a step that starts and ends
\* with no detail view open, and the step that closes the detail view installs
\* a fresh observer of the load-more region (whose first notification reports
\* the region's visibility).
C11_NoFetchWhileDetailOpen ==
    [][/\ inflight' > inflight => (activePost = NoPost /\ activePost' = NoPost)
       /\ (activePost # NoPost /\ activePost' = NoPost) =>
              obs' = [on |-> TRUE, last |-> "none"]]_vars

\* a detail view is open, the region counts as visible, nothing is loading:
\* no observer is installed and no request is outstanding
C11_Witness ==
    /\ activePost # NoPost
    /\ view = Snapshot
    /\ visible
    /\ ~isLoadingPost
    /\ ~obs.on
    /\ inflight = 0

----------------------------------------------------------------------------
(* Claims about the feed and its enrichment, under SpecFeed *)

\* C12: a step in which generateNextPost resolves, or in which the feed changes
\* length or analyzePostRisk is called, completes one pagination request,
\* appends exactly one item at the end of the feed (the earlier items keep
\* their positions and contents) and calls analyzePostRisk exactly once, for
\* that item, which had no request before.
C12_ResolveAppendsOne ==
    [][((\E t \in FeedTopics : FetchResolve(t))
            \/ Len(posts') # Len(posts) \/ issued' # issued) =>
          /\ inflight' = inflight - 1
          /\ Len(posts') = Len(posts) + 1
          /\ LET newPost == posts'[Len(posts')]
             IN /\ posts' = Append(posts, newPost)
                /\ issued' = Append(issued, newPost.id)
                /\ newPost.id \notin analysis
                /\ analysis' = analysis \cup {newPost.id}]_vars

\* the second item has just been appended behind the first, which was voted on
\* before; both analyses are outstanding
C12_Witness ==
    /\ Len(posts) = 2
    /\ posts[1].id = 1 /\ posts[1].userVote # "none"
    /\ posts[2].id = 2
    /\ issued = <<1, 2>>
    /\ analysis = {1, 2}

\* C13: a step that completes the analysis of item `id` keeps the length and the
\* order of the feed, leaves every other item as it is, and changes at most the
\* guardResult of the item with that id: its id, topicId and userVote keep the
\* values they have at that moment. When the analysis resolved with r, the
\* item's guardResult becomes r.
C13_MergeOnlyAnnotation ==
    [][\A id \in analysis \ analysis' :
          /\ Len(posts') = Len(posts)
          /\ \A i \in 1..Len(posts) :
                IF posts[i].id = id
                THEN posts'[i] = [posts[i] EXCEPT !.guardResult = posts'[i].guardResult]
                ELSE posts'[i] = posts[i]
          /\ \A r \in Results \cup {AnalysisFailed} :
                EnrichResolve(id, r) =>
                    \A i \in 1..Len(posts) :
                        posts[i].id = id => posts'[i].guardResult = r]_vars

\* an item was voted on while its analysis was outstanding (the committed
\* render shows the vote and no annotation); the analysis has resolved since
\* and the item holds both the vote and the annotation
C13_Witness ==
    \E i \in 1..Len(posts) :
        /\ i <= Len(view.posts)
        /\ view.posts[i].userVote # "none"
        /\ view.posts[i].guardResult = "absent"
        /\ posts[i].userVote = view.posts[i].userVote
        /\ posts[i].guardResult \in Results

\* identities a completion could carry: those of the feed and one more
PostIds == 1..(MaxFeed + 1)

IdsOf(ps) == {ps[i].id : i \in 1..Len(ps)}

\* C14: applied to the feed and the open detail item of any moment, the two
\* updaters of a completion for an identity that is not in the feed return them
\* as they are, whatever the result; they read nothing else (not the graph)
\* and are defined when no detail item is open.
C14_AbsentIdentityNoOp ==
    \A id \in PostIds \ IdsOf(posts), r \in Results \cup {AnalysisFailed} :
        /\ mergeGuard(posts, id, r) = posts
        /\ mergeActive(activePost, id, r) = activePost

\* a feed with an item that is open in the detail view and not annotated, so
\* that attaching a result to it or to the feed would show
C14_Witness ==
    /\ Len(posts) >= 1
    /\ PostIds \ IdsOf(posts) # {}
    /\ activePost # NoPost
    /\ activePost.guardResult = "absent"
    /\ \E i \in 1..Len(posts) : posts[i].userVote # "none"

\* C15: analyzePostRisk has been called exactly once for every item of the feed
\* and for nothing else, and an item that holds a result has no request left
\* that could attach another one.
C15_OneAnalysisPerItem ==
    /\ Len(issued) = Len(posts)
    /\ \A i \in 1..Len(posts) : issued[i] = posts[i].id
    /\ \A i, j \in 1..Len(issued) : issued[i] = issued[j] => i = j
    /\ \A i \in 1..Len(posts) :
          posts[i].guardResult # "absent" => posts[i].id \notin analysis

\* two items, each analysed once, both results attached
C15_Witness ==
    /\ Len(posts) = 2
    /\ issued = <<1, 2>>
    /\ analysis = {}
    /\ \A i \in 1..2 : posts[i].guardResult # "absent"

\* the part of the state the completions, votes and appends act on
FeedState == [posts |-> posts, activePost |-> activePost, analysis |-> analysis]

\* the effect of EnrichResolve(id, r) on it
resolveIn(fs, id, r) ==
    [posts |-> mergeGuard(fs.posts, id, r),
     activePost |-> mergeActive(fs.activePost, id, r),
     analysis |-> fs.analysis \ {id}]

\* the effect of a vote, computed by the committed render, on it
voteIn(fs, postId, type, vote) ==
    [fs EXCEPT !.posts = updatePosts(@, postId, type, vote),
               !.activePost = IF view.activePost # NoPost /\ view.activePost.id = postId
                              THEN updateActive(@, type, vote) ELSE @]

\* the effect of a pagination completion on it
appendIn(fs, newPost) ==
    [fs EXCEPT !.posts = Append(@, newPost),
               !.analysis = @ \cup {newPost.id}]

\* C16: from every state, completing the outstanding analysis of item a
\* commutes with completing that of another item b, with a vote on any item and
\* with a pagination completion: both orders give the same feed, the same open
\* detail item and the same outstanding analyses. (Every interleaving is a
\* sequence of such exchanges between reachable states.)
C16_MergesCommute ==
    \A a \in analysis, ra \in Results \cup {AnalysisFailed} :
        /\ \A b \in analysis \ {a}, rb \in Results \cup {AnalysisFailed} :
              resolveIn(resolveIn(FeedState, a, ra), b, rb)
                  = resolveIn(resolveIn(FeedState, b, rb), a, ra)
        /\ \A i \in 1..Len(posts), type \in {"upvote", "downvote"}, vote \in Votes :
              voteIn(resolveIn(FeedState, a, ra), posts[i].id, type, vote)
                  = resolveIn(voteIn(FeedState, posts[i].id, type, vote), a, ra)
        /\ LET newPost == [id |-> Len(posts) + 1, topicId |-> "n1",
                           userVote |-> "none", guardResult |-> "absent",
                           content |-> "text", upvotes |-> 20, comments |-> 0]
           IN appendIn(resolveIn(FeedState, a, ra), newPost)
                  = resolveIn(appendIn(FeedState, newPost), a, ra)

\* two items with outstanding analyses, one of them open in the detail view
C16_Witness ==
    /\ analysis = {1, 2}
    /\ activePost # NoPost
    /\ activePost.id \in analysis
    /\ view = Snapshot

\* C17: every step keeps the identities of the feed as a prefix of the
\* identities of the feed after it (so the feed of any state is a prefix of
\* the feed of every later state), and the identities of the feed are those of
\* the resolved pagination requests, in the order they resolved.
C17_AppendOnly ==
    [][/\ Len(posts) <= Len(posts')
       /\ \A i \in 1..Len(posts) : posts'[i].id = posts[i].id
       /\ Len(posts') = Len(issued')
       /\ \A i \in 1..Len(posts') : posts'[i].id = issued'[i]]_vars

\* two items in the order they resolved, after a vote on the second and a
\* completed analysis of the first
C17_Witness ==
    /\ Len(posts) = 2
    /\ posts[1].id = 1 /\ posts[1].guardResult # "absent"
    /\ posts[2].id = 2 /\ posts[2].userVote # "none"

\* C18: a failed analysis is handled and leaves no annotation: no rejection is
\* ever left without a handler, and no item ever holds the result of an
\* analysis that got no usable response.
C18_FailureSwallowed ==
    /\ ~unhandled
    /\ \A i \in 1..Len(posts) : posts[i].guardResult # AnalysisFailed

\* C19: a step in which the analysis of item `id` ends without a usable result
\* (it rejected, or it got no response text) leaves every other item, the
\* length and order of the feed, the in-flight flag, the outstanding pagination
\* requests, the other outstanding analyses and the graph as they are.
C19_FailureIsLocal ==
    [][\A id \in analysis \ analysis' :
          FindPost(posts', id).guardResult \notin Results =>
              /\ Len(posts') = Len(posts)
              /\ \A i \in 1..Len(posts) :
                    /\ posts'[i].id = posts[i].id
                    /\ posts[i].id # id => posts'[i] = posts[i]
              /\ isLoadingPost' = isLoadingPost
              /\ inflight' = inflight
              /\ analysis' = analysis \ {id}
              /\ graphData' = graphData]_vars

\* the analysis of the first item has rejected while the second item holds
\* its result and a pagination request is outstanding
C19_Witness ==
    /\ unhandled
    /\ Len(posts) = 2
    /\ posts[1].guardResult = "absent" /\ posts[1].id \notin analysis
    /\ posts[2].guardResult \in Results
    /\ isLoadingPost /\ inflight > 0

----------------------------------------------------------------------------
(* Claims about the graph store, under SpecVote *)

\* node.lastUpdated of the node `id` (NoTime when the graph has no such node)
StampOf(gd, id) ==
    IF \E n \in gd.nodes : n.id = id
    THEN (CHOOSE n \in gd.nodes : n.id = id).lastUpdated
    ELSE NoTime

\* C20: in every step, a node whose weight differs after the step carries the
\* time of the step as its lastUpdated, and no other node's lastUpdated differs
\* after the step.
C20_ChangeIsStamped ==
    [][\A n \in NodeIds :
          WeightOf(graphData', n) # WeightOf(graphData, n) =>
              /\ StampOf(graphData', n) = now
              /\ \A m \in NodeIds \ {n} :
                    StampOf(graphData', m) = StampOf(graphData, m)]_vars

\* the last interaction changed the weight of n1, which carries its time; n2
\* was never stamped
C20_Witness ==
    /\ Len(trace) >= 1
    /\ trace[Len(trace)].before # trace[Len(trace)].after
    /\ StampOf(graphData, "n1") = now - 1
    /\ StampOf(graphData, "n2") = NoTime

----------------------------------------------------------------------------
(* Claims about the InterestGraph component, under SpecGraph *)

\* C21: while the graph store keeps the node count and the link count the
\* simulation was built for, no step builds a new simulation, and the step in
\* which the component takes in an update of the store keeps the simulation's
\* nodes, their positions and their pins: only values are reconciled.
C21_NoReseedOnValueUpdate ==
    [][/\ (sim.on /\ Topo(graphData') = sim.topo) =>
              (sim'.on /\ sim'.seed = sim.seed)
       /\ (sim.on /\ sim'.seen # sim.seen) =>
              /\ DOMAIN sim'.val = DOMAIN sim.val
              /\ sim'.pos = sim.pos
              /\ sim'.pinned = sim.pinned]_vars

\* the first simulation has taken in a vote's update of n1: its nodes are
\* where the forces had moved them
C21_Witness ==
    /\ sim.on /\ sim.seed = 1
    /\ sim.seen = graphData
    /\ NodeOf(graphData, "n1").lastUpdated # NoTime
    /\ sim.val["n1"] = NodeOf(graphData, "n1").val
    /\ \A id \in DOMAIN sim.pos : sim.pos[id] = "moved"

\* C22: in the cycle in which the component takes in an update of the store,
\* every node that is pulsed or resized is a node that update changed.
C22_OnlyMutatedNodePulsed ==
    [][(sim.on /\ sim'.seen # sim.seen) =>
          \A id \in sim'.pulsed \cup sim'.resized :
              /\ HasNode(sim.seen, id)
              /\ NodeOf(sim.seen, id) # NodeOf(sim'.seen, id)]_vars

\* C23: after every cycle in which the component takes in an update of the
\* store, the collision force holds the store's weight plus the padding for
\* every node, and when the weight of some node differed from the one the
\* simulation held, the simulation is running.
C23_CollideRefreshed ==
    [][(sim.on /\ sim'.seen # sim.seen) =>
          /\ \A id \in DOMAIN sim'.val :
                HasNode(graphData', id) =>
                    sim'.collide[id] = NodeOf(graphData', id).val + CollidePadding
          /\ (\E id \in DOMAIN sim.val :
                 /\ HasNode(graphData', id)
                 /\ sim.val[id] # NodeOf(graphData', id).val) => sim'.running]_vars

\* the weight of n2 has changed since the simulation was built; the cycle is
\* done, the force holds the new radius and the simulation runs
C23_Witness ==
    /\ sim.on
    /\ sim.seen = graphData
    /\ NodeOf(graphData, "n2").val # 50
    /\ sim.collide["n2"] = NodeOf(graphData, "n2").val + CollidePadding
    /\ sim.running

C25_FailureCommitsNothing ==
    [][/\ (genInFlight /\ ~genInFlight' /\ state' # "GRAPH_VIEW") =>
             /\ graphData' = graphData
             /\ posts' = posts
             /\ state' = "LOGIN"
       /\ (~genInFlight /\ genInFlight') => state = "ANALYZING"
       /\ (state # "ANALYZING" /\ state' = "ANALYZING") =>
             /\ state = "LOGIN"
             /\ trim(username) # ""]_vars

\* the generation has failed: the store is still empty, the application is at
\* LOGIN and the loading screen is still what is drawn
C25_Witness ==
    /\ state = "LOGIN"
    /\ view.state = "ANALYZING"
    /\ ~genInFlight
    /\ graphData = EmptyGraph

\* the two kinds of acquisition failure: the proxies cannot be used, or Reddit
\* answers with an error or with a payload that cannot be read
Unavailable == {"networkError", "httpStatus", "emptyContents"}
HardErrors == {"malformedJson", "redditError", "invalidStructure"}

\* C26: generateUserGraph never ends in failure while the acquisition is
\* going on, whatever the proxies answer; an acquisition that ends without
\* records hands over to the model call with the archetype prompt.
C26_UnavailableFallsBack ==
    [][/\ (genInFlight /\ ~genInFlight' /\ state' # "GRAPH_VIEW") =>
             acquisition.phase = "ai"
       /\ (acquisition.phase # "ai" /\ acquisition'.phase = "ai"
             /\ acquisition'.activity # "records") =>
             /\ genInFlight'
             /\ state' = "ANALYZING"
             /\ acquisition'.context = "archetype"]_vars

\* both proxies were unavailable and the model is being called with the
\* archetype prompt
C26_Witness ==
    /\ genInFlight
    /\ acquisition.phase = "ai"
    /\ acquisition.activity = "null"
    /\ acquisition.errors = {"networkError", "httpStatus"}
    /\ acquisition.context = "archetype"

\* C27: an acquisition in which a hard error occurred does not end with the
\* outcome of an unavailable source (null or no records) and does not lead to
\* the archetype prompt.
C27_HardErrorReported ==
    (acquisition.phase = "ai" /\ acquisition.errors \cap HardErrors # {}) =>
        /\ acquisition.activity \notin {"null", "empty"}
        /\ acquisition.context # "archetype"

\* C28: every node of the graph store has a weight from MinWeight to MaxWeight.
C28_StoreInRange ==
    \A n \in graphData.nodes : InRange(n.val)

\* C29: the topicId of every feed item is the id of a node of the graph store.
C29_TopicRefExists ==
    \A i \in 1..Len(posts) : HasNode(graphData, posts[i].topicId)

\* C30: no two feed items have the same id.
C30_UniqueIds ==
    \A i, j \in 1..Len(posts) : posts[i].id = posts[j].id => i = j

\* what identifies and shows a feed item: everything but its vote state and
\* its annotation
Fixed(p) == <<p.id, p.topicId, p.content, p.upvotes, p.comments>>

\* C31: every item of the feed keeps its place, identity, topicId, content and
\* counters in every step; a step that changes the vote state of an item
\* changes nothing else in that item and leaves every other item as it was.
C31_ItemFrame ==
    [][\A i \in 1..Len(posts) :
          /\ i <= Len(posts')
          /\ Fixed(posts'[i]) = Fixed(posts[i])
          /\ posts'[i].userVote # posts[i].userVote =>
                /\ posts'[i].guardResult = posts[i].guardResult
                /\ \A j \in 1..Len(posts) : j # i => posts'[j] = posts[j]]_vars

\* two items; the first was voted up and has its annotation, the second is
\* as it was appended
C31_Witness ==
    /\ Len(posts) = 2
    /\ posts[1].userVote = "up"
    /\ posts[1].guardResult \notin {"absent", AnalysisFailed}
    /\ posts[2].userVote = "none"
    /\ posts[2].guardResult = "absent"

\* C32: an analysis comes back only for an item that is already in the feed;
\* the step that appends an item leaves it without annotation, with its
\* analysis outstanding, and clears the in-flight flag.
C32_FireAndForget ==
    [][/\ \A id \in analysis \ analysis' : id \in IdsOf(posts)
       /\ Len(posts') > Len(posts) =>
             /\ posts'[Len(posts')].guardResult = "absent"
             /\ posts'[Len(posts')].id \in analysis'
             /\ ~isLoadingPost']_vars

\* the first item was voted on while its analysis is outstanding, and the next
\* pagination request has been issued
C32_Witness ==
    /\ Len(posts) = 1
    /\ posts[1].id \in analysis
    /\ posts[1].guardResult = "absent"
    /\ posts[1].userVote = "up"
    /\ isLoadingPost
    /\ inflight > 0

\* C33: an interaction leaves the links and the set of node ids as they were,
\* and every node other than the one the item names exactly as it was.
C33_GraphFrame ==
    [][/\ graphData'.links = graphData.links
       /\ {n.id : n \in graphData'.nodes} = {n.id : n \in graphData.nodes}
       /\ trace' # trace =>
             \A n \in graphData.nodes :
                 n.id # trace'[Len(trace')].topicId => n \in graphData'.nodes]_vars

\* a downvote has changed the weight of n1; n2 is the node generateUserGraph
\* returned
C33_Witness ==
    /\ Len(trace) >= 1
    /\ trace[Len(trace)].type = "downvote"
    /\ trace[Len(trace)].topicId = "n1"
    /\ trace[Len(trace)].after # trace[Len(trace)].before
    /\ [id |-> "n2", val |-> 50, lastUpdated |-> NoTime] \in graphData.nodes
    /\ Cardinality(graphData.nodes) = 2

\* what a vote state has added to the weight of the node
Contribution(v) == IF v = "up" THEN 25 ELSE IF v = "down" THEN -20 ELSE 0

\* C34: as long as no update was cut by clamping, the weight of the node is
\* its weight before the first interaction, plus the contribution of the
\* item's vote state, plus 5 for every click.
C34_VoteAndWeightAgree ==
    (/\ Len(trace) >= 1
     /\ OnNode(trace[1])
     /\ \A k \in 1..Len(trace) : Untruncated(trace[k])) =>
        WeightOf(graphData, trace[1].topicId) =
            trace[1].before
            + Contribution(FindPost(posts, trace[1].postId).userVote)
            + 5 * Cardinality({k \in 1..Len(trace) : trace[k].type = "click"})

\* an upvote, a click and a flip to down, none of them cut: 100 - 20 + 5
C34_Witness ==
    /\ Len(trace) = 3
    /\ OnNode(trace[1]) /\ trace[1].before = 100
    /\ trace[1].type = "upvote"
    /\ trace[2].type = "click"
    /\ trace[3].type = "downvote"
    /\ posts[1].userVote = "down"
    /\ WeightOf(graphData, "n1") = 85

\* C35: the open item has the vote state and the annotation of the feed item
\* with the same id.
C35_ActiveAgreesWithFeed ==
    activePost # NoPost =>
        /\ FindPost(posts, activePost.id).userVote = activePost.userVote
        /\ FindPost(posts, activePost.id).guardResult = activePost.guardResult

\* C36: a step that leaves the weight of a node as it was leaves its
\* lastUpdated as it was.
C36_AbsorbedKeepsStamp ==
    [][\A n \in NodeIds :
          WeightOf(graphData', n) = WeightOf(graphData, n) =>
              StampOf(graphData', n) = StampOf(graphData, n)]_vars

\* the stamp of node id is less than the recency window old
Recent(gd, id) ==
    /\ NodeOf(gd, id).lastUpdated # NoTime
    /\ now - NodeOf(gd, id).lastUpdated < RecencyWindow

\* C37: in a cycle of the live-update effect, a node without a recent stamp is
\* resized and not pulsed when its weight in the store differs from the one
\* the simulation held, and gets no transition when the weights are equal.
C37_PassiveResize ==
    [][(sim.on /\ sim'.seen # sim.seen) =>
          \A id \in DOMAIN sim.val :
              (HasNode(graphData, id) /\ ~Recent(graphData, id)) =>
                  /\ id \notin sim'.pulsed
                  /\ id \in sim'.resized <=> sim.val[id] # NodeOf(graphData, id).val]_vars

\* a cycle has resized n1 without a pulse and has left n2 alone
C37_Witness ==
    /\ sim.on
    /\ sim.seen = graphData
    /\ sim.resized = {"n1"}
    /\ sim.pulsed = {}
    /\ sim.val["n1"] = NodeOf(graphData, "n1").val

\* C38: after every reseed and after every cycle of the live-update effect,
\* the simulation holds every node of the store with the store's weight.
C38_SimFollowsStore ==
    [][(sim'.on /\ (sim'.seed # sim.seed \/ sim'.seen # sim.seen)) =>
          \A n \in graphData'.nodes :
              /\ n.id \in DOMAIN sim'.val
              /\ sim'.val[n.id] = n.val]_vars

\* both nodes have changed their weight since the simulation was built, and
\* the simulation holds the new weights
C38_Witness ==
    /\ sim.on
    /\ sim.seed = 1
    /\ sim.seen = graphData
    /\ NodeOf(graphData, "n1").val # 175
    /\ NodeOf(graphData, "n2").val # 50
    /\ \A n \in graphData.nodes : sim.val[n.id] = n.val

\* C39: no step that begins and ends with a detail open makes the feed longer.
C39_NoGrowthWhileOpen ==
    [][(activePost # NoPost /\ activePost' # NoPost) => Len(posts') = Len(posts)]_vars

\* the moves of AppState
Transitions ==
    {<<"LOGIN", "ANALYZING">>, <<"ANALYZING", "GRAPH_VIEW">>,
     <<"ANALYZING", "LOGIN">>, <<"GRAPH_VIEW", "SIMULATOR">>}

\* C40: the phase changes only along Transitions; ANALYZING is left for LOGIN
\* only by a generation that ends without a graph, and ANALYZING is entered
\* only with a non-blank username; GRAPH_VIEW is entered with the generated
\* graph in the store; the step into SIMULATOR issues a pagination request;
\* SIMULATOR is never left.
C40_PhaseOrder ==
    [][/\ state' # state => <<state, state'>> \in Transitions
       /\ (state = "LOGIN" /\ state' = "ANALYZING") => trim(username) # ""
       /\ (state = "ANALYZING" /\ state' = "LOGIN") =>
             (genInFlight /\ ~genInFlight' /\ graphData' = graphData)
       /\ (state = "ANALYZING" /\ state' = "GRAPH_VIEW") =>
             (genInFlight /\ ~genInFlight' /\ graphData' # EmptyGraph)
       /\ (state = "GRAPH_VIEW" /\ state' = "SIMULATOR") =>
             /\ graphData' = graphData
             /\ graphData # EmptyGraph
             /\ isLoadingPost'
             /\ inflight' = inflight + 1
       /\ state = "SIMULATOR" => state' = "SIMULATOR"]_vars

\* the simulator has just been entered: the store holds the generated graph,
\* the feed is empty and the first request is outstanding
C40_Witness ==
    /\ state = "SIMULATOR"
    /\ view.state = "SIMULATOR"
    /\ graphData # EmptyGraph
    /\ posts = <<>>
    /\ isLoadingPost
    /\ inflight = 1

====
